---- MODULE Spec2Model ----
(***************************************************************************)
(* Model of the election-results reporting backend:                       *)
(*   - the activity log and the Slack delivery worker                     *)
(*     (server/activity_log/slack_worker.py, server/api/elections.py);    *)
(*   - the result submission handler (server/api/jurisdictions.py);       *)
(*   - the definition and jurisdiction bulk loaders;                      *)
(*   - the results aggregation query (get_election_data).                 *)
(* Each part has its own specification over the shared variables.         *)
(***************************************************************************)
EXTENDS Integers, Sequences, FiniteSets, TLC

\* ------------------------------------------------------------------ bounds
\* Most activity records ever held by the log.
MaxRecords == 3
\* Latest instant the wall clock reaches (datetime.now(timezone.utc)).
MaxTime == 5

\* Python's None / SQL NULL for the integer-valued columns of the model.
NULL == 0

Max2(a, b) == IF a >= b THEN a ELSE b

\* ------------------------------------------------------------------ state
VARIABLES
    now,                \* wall clock: the value datetime.now() returns
    activity_log,       \* table activity_log_record (set of rows)
    requests,           \* position of each request handler in flight
    SLACK_WEBHOOK_URL,  \* config.SLACK_WEBHOOK_URL (NULL when not configured)
    worker_org,         \* the organization_id the caller passes to the worker
    worker_pc,          \* position of the __main__ loop of slack_worker
    worker_dirty,       \* id of the record marked in the worker's open transaction
    newest_delivered,   \* history: the greatest timestamp delivered (200)
    delivered_ok,       \* history: the rows the endpoint answered 200 for
    last_call           \* history: outcome of the latest send_new_slack_notification

VARIABLES
    autoflush,          \* sessionmaker(autoflush=...) of the database session
    election,           \* table election
    state,              \* table state
    jurisdiction,       \* table jurisdiction
    election_jurisdiction,      \* table election_jurisdiction
    precinct,           \* table precinct
    contest,            \* table contest
    candidate,          \* table candidate
    user,               \* table user
    jurisdiction_administration,    \* table jurisdiction_administration
    election_result,    \* table election_result
    file,               \* processing fields of the File being processed
    db_before,          \* history: the tables as they were before the latest call
    last_op             \* history: the latest API call, its input and its outcome

workerVars == <<now, activity_log, requests, SLACK_WEBHOOK_URL, worker_org,
                worker_pc, worker_dirty, newest_delivered, delivered_ok, last_call>>

dbVars == <<autoflush, election, state, jurisdiction, election_jurisdiction, precinct, contest,
            candidate, user, jurisdiction_administration, election_result, file,
            db_before, last_op>>

vars == <<workerVars, dbVars>>

\* ------------------------------------------------- activity log, requests
Orgs == {1, 2}
ReqIds == {1, 2}
RecordIds == 1..MaxRecords

\* The activity classes the request handlers append (elections.py:241-265).
ActivityNames == {"CreateElection", "UploadAndProcessFile", "DeleteElection"}

\* Rows another transaction can read: committed ones (tx = NULL).
Visible(log) == {r \in log : r.tx = NULL}

FreeId(log) == CHOOSE i \in RecordIds : /\ i \notin {r.id : r \in log}
                                        /\ \A j \in RecordIds : j < i => j \in {r.id : r \in log}

\* record_activity: append one row, posted marker unset, inside the caller's
\* open transaction tx.
record_activity(log, tx, name, org, timestamp) ==
    log \cup {[id |-> FreeId(log), timestamp |-> timestamp, organization_id |-> org,
               activity_name |-> name, posted_to_slack_at |-> NULL, tx |-> tx,
               late |-> FALSE]}

\* db_session.commit() of request tx: its rows become visible. The history
\* field late notes that a newer row had been delivered (200) by then.
commit_request(log, tx, sent) ==
    {IF r.tx = tx
     THEN [r EXCEPT !.tx = NULL,
                    !.late = sent > r.timestamp]
     ELSE r : r \in log}

\* The request ends with an exception: its transaction is rolled back.
rollback_request(log, tx) == {r \in log : r.tx # tx}

\* Records the requests in flight will still append.
StillToRecord(pc) == IF pc = "ce_process" THEN 2 ELSE 0

RECURSIVE SumOver(_, _)
SumOver(S, f) == IF S = {} THEN 0
                 ELSE LET x == CHOOSE y \in S : TRUE IN f[x] + SumOver(S \ {x}, f)

Reserved == SumOver(ReqIds, [r \in ReqIds |-> StillToRecord(requests[r].pc)])

Room(n) == Cardinality(activity_log) + Reserved + n <= MaxRecords

Idle == [pc |-> "idle", org |-> NULL]

\* datetime.now(timezone.utc): every read of the clock returns a later
\* instant than the read before it.
Later(t) == t + 1

\* create_election up to the first record_activity (elections.py:239-243):
\* the election is flushed, CreateElection is recorded with its created_at.
create_election_begin(r, org) ==
    /\ requests[r].pc = "idle"
    /\ Room(3)
    /\ Later(now) <= MaxTime
    /\ now' = Later(now)
    /\ activity_log' = record_activity(activity_log, r, "CreateElection", org, now')
    /\ requests' = [requests EXCEPT ![r] = [pc |-> "ce_process", org |-> org]]
    /\ UNCHANGED <<SLACK_WEBHOOK_URL, worker_org, worker_pc, worker_dirty,
                   newest_delivered, delivered_ok, last_call, dbVars>>

\* elections.py:245-256: the two files are processed, each followed by an
\* UploadAndProcessFile record carrying the file's processing_started_at, and
\* the request commits; or one of them raises, the request ends and nothing of
\* it is committed.
create_election_process(r, ok) ==
    /\ requests[r].pc = "ce_process"
    /\ Later(Later(now)) <= MaxTime
    /\ now' = Later(Later(now))
    /\ activity_log' =
         IF ok
         THEN commit_request(
                  record_activity(
                      record_activity(activity_log, r, "UploadAndProcessFile",
                                      requests[r].org, Later(now)),
                      r, "UploadAndProcessFile", requests[r].org, Later(Later(now))),
                  r, newest_delivered)
         ELSE rollback_request(activity_log, r)
    /\ requests' = [requests EXCEPT ![r] = Idle]
    /\ UNCHANGED <<SLACK_WEBHOOK_URL, worker_org, worker_pc, worker_dirty,
                   newest_delivered, delivered_ok, last_call, dbVars>>

\* delete_election up to its commit (elections.py:262-265): DeleteElection is
\* recorded with the election's deleted_at.
delete_election_begin(r, org) ==
    /\ requests[r].pc = "idle"
    /\ Room(1)
    /\ Later(now) <= MaxTime
    /\ now' = Later(now)
    /\ activity_log' = record_activity(activity_log, r, "DeleteElection", org, now')
    /\ requests' = [requests EXCEPT ![r] = [pc |-> "de_commit", org |-> org]]
    /\ UNCHANGED <<SLACK_WEBHOOK_URL, worker_org, worker_pc, worker_dirty,
                   newest_delivered, delivered_ok, last_call, dbVars>>

\* elections.py:266
delete_election_commit(r) ==
    /\ requests[r].pc = "de_commit"
    /\ activity_log' = commit_request(activity_log, r, newest_delivered)
    /\ requests' = [requests EXCEPT ![r] = Idle]
    /\ UNCHANGED <<now, SLACK_WEBHOOK_URL, worker_org, worker_pc, worker_dirty,
                   newest_delivered, delivered_ok, last_call, dbVars>>

\* ------------------------------------------------------- delivery worker
\* slack_worker.py:148: the only status that counts as delivered.
HTTP_OK == 200

\* What requests.post can give: a 200, another status, or no response at all
\* (the transport fails and requests.post raises).
Responses == {HTTP_OK, 500, NULL}

\* slack_worker.py:128-130 without the filter on posted_to_slack_at.
Unposted_any(log, organization_id) ==
    {r \in Visible(log) : organization_id = NULL \/ r.organization_id = organization_id}

\* slack_worker.py:128-130: the rows the query filters in. The worker reads
\* committed rows; organization_id = NULL (None) means no scope.
Unposted(log, organization_id) ==
    {r \in Visible(log) : /\ r.posted_to_slack_at = NULL
                          /\ (organization_id = NULL \/ r.organization_id = organization_id)}

\* slack_worker.py:131-133: order_by(timestamp).limit(1): a row no other row
\* of S is older than (rows of equal timestamp come in either order).
OldestFirst(S) == {r \in S : \A q \in S : r.timestamp <= q.timestamp}

\* The query without its order_by.
select_record_unordered(log, organization_id) == Unposted(log, organization_id)

\* slack_worker.py:128-134: the rows one_or_none() may return.
select_record(log, organization_id) == OldestFirst(Unposted(log, organization_id))

\* slack_worker.py:58-118: slack_message has a branch for these classes and
\* raises for any other.
slack_message_renders(activity_name) ==
    activity_name \in {"CreateElection", "DeleteElection", "RecordResults"}

NoCall == [result |-> "none", record |-> NULL, requested |-> FALSE, status |-> NULL,
           older |-> {}, newest_before |-> NULL, resumes |-> FALSE]

\* The call without the check of the status code.
send_unchecked(log, url, selected, rv, t) ==
    IF url = NULL \/ selected = {}
    THEN [log |-> log, result |-> IF url = NULL THEN "raised" ELSE "returned",
          record |-> NULL, requested |-> FALSE, status |-> NULL]
    ELSE LET record == CHOOSE r \in selected : TRUE IN
         [log |-> (log \ {record}) \cup {[record EXCEPT !.posted_to_slack_at = t]},
          result |-> "returned", record |-> record.id, requested |-> TRUE, status |-> rv]

\* The call without the check of the configuration (slack_worker.py:125-126).
send_without_config_check(log, url, selected, rv, t) ==
    IF selected = {}
    THEN [log |-> log, result |-> "returned", record |-> NULL, requested |-> FALSE,
          status |-> NULL]
    ELSE LET record == CHOOSE r \in selected : TRUE IN
         IF ~slack_message_renders(record.activity_name)
         THEN [log |-> log, result |-> "raised", record |-> record.id,
               requested |-> FALSE, status |-> NULL]
         ELSE IF rv # HTTP_OK
         THEN [log |-> log, result |-> "raised", record |-> record.id,
               requested |-> TRUE, status |-> rv]
         ELSE [log |-> (log \ {record}) \cup {[record EXCEPT !.posted_to_slack_at = t]},
               result |-> "returned", record |-> record.id, requested |-> TRUE,
               status |-> rv]

\* slack_worker.py:124-151, as a function of the log, the configuration, the
\* selected rows (empty when the query finds none), the endpoint's answer rv
\* and the clock: the new log and what the call did.
send_new_slack_notification(log, url, selected, rv, t) ==
    IF url = NULL
    THEN [log |-> log, result |-> "raised", record |-> NULL, requested |-> FALSE,
          status |-> NULL]
    ELSE IF selected = {}
    THEN [log |-> log, result |-> "returned", record |-> NULL, requested |-> FALSE,
          status |-> NULL]
    ELSE LET record == CHOOSE r \in selected : TRUE IN
         IF ~slack_message_renders(record.activity_name)
         THEN [log |-> log, result |-> "raised", record |-> record.id,
               requested |-> FALSE, status |-> NULL]
         ELSE IF rv # HTTP_OK
         THEN [log |-> log, result |-> "raised", record |-> record.id,
               requested |-> TRUE, status |-> rv]
         ELSE [log |-> (log \ {record}) \cup {[record EXCEPT !.posted_to_slack_at = t]},
               result |-> "returned", record |-> record.id, requested |-> TRUE,
               status |-> rv]

\* The rows in the scope that are unposted and older than the selected one.
OlderUnposted(log, organization_id, selected) ==
    {r.id : r \in {q \in Unposted(log, organization_id) :
                     \E s \in selected : q.timestamp < s.timestamp}}

\* python -m server.activity_log.slack_worker (slack_worker.py:154-158)
StartWorker ==
    /\ worker_pc = "stopped"
    /\ worker_pc' = "send"
    /\ UNCHANGED <<now, activity_log, requests, SLACK_WEBHOOK_URL, worker_org,
                   worker_dirty, newest_delivered, delivered_ok, last_call, dbVars>>

\* slack_worker.py:159: one call of send_new_slack_notification. An exception
\* is caught nowhere in the loop, so it ends the process; the history field
\* resumes of last_call tells whether the loop went on to its commit.
WorkerSend ==
    /\ worker_pc = "send"
    /\ \E rv \in Responses :
         LET rows == select_record(activity_log, worker_org)
             picks == IF rows = {} THEN {{}} ELSE {{r} : r \in rows}
         IN \E selected \in picks :
              LET res == send_new_slack_notification(activity_log, SLACK_WEBHOOK_URL,
                                                     selected, rv, now)
              IN /\ activity_log' = res.log
                 /\ last_call' = [result |-> res.result, record |-> res.record,
                                  requested |-> res.requested, status |-> res.status,
                                  older |-> OlderUnposted(activity_log, worker_org,
                                                          selected),
                                  newest_before |-> newest_delivered,
                                  resumes |-> res.result # "raised"]
                 /\ newest_delivered' =
                      IF res.requested /\ rv = HTTP_OK
                      THEN Max2(newest_delivered, (CHOOSE r \in selected : TRUE).timestamp)
                      ELSE newest_delivered
                 /\ delivered_ok' =
                      IF res.requested /\ rv = HTTP_OK
                      THEN delivered_ok \cup {res.record}
                      ELSE delivered_ok
                 /\ worker_dirty' = IF res.log # activity_log THEN res.record ELSE NULL
                 /\ worker_pc' = IF res.result = "raised" THEN "stopped" ELSE "commit"
    /\ UNCHANGED <<now, requests, SLACK_WEBHOOK_URL, worker_org, dbVars>>

\* slack_worker.py:163-164 with the commit and no sleep after it.
WorkerCommit_no_sleep ==
    /\ worker_pc = "commit"
    /\ worker_dirty' = NULL
    /\ worker_pc' = "send"
    /\ UNCHANGED <<now, activity_log, requests, SLACK_WEBHOOK_URL, worker_org,
                   newest_delivered, delivered_ok, last_call, dbVars>>

\* slack_worker.py:163: db_session.commit()
WorkerCommit ==
    /\ worker_pc = "commit"
    /\ worker_dirty' = NULL
    /\ worker_pc' = "sleep"
    /\ UNCHANGED <<now, activity_log, requests, SLACK_WEBHOOK_URL, worker_org,
                   newest_delivered, delivered_ok, last_call, dbVars>>

\* slack_worker.py:164: time.sleep(1)
WorkerSleep ==
    /\ worker_pc = "sleep"
    /\ worker_pc' = "send"
    /\ UNCHANGED <<now, activity_log, requests, SLACK_WEBHOOK_URL, worker_org,
                   worker_dirty, newest_delivered, delivered_ok, last_call, dbVars>>

\* The process is killed: the open transaction, with the mark it may hold
\* (slack_worker.py:151), is never committed.
WorkerKilled ==
    /\ worker_pc # "stopped"
    /\ worker_pc' = "stopped"
    /\ activity_log' = {IF r.id = worker_dirty THEN [r EXCEPT !.posted_to_slack_at = NULL]
                        ELSE r : r \in activity_log}
    /\ worker_dirty' = NULL
    /\ UNCHANGED <<now, requests, SLACK_WEBHOOK_URL, worker_org, newest_delivered,
                   delivered_ok, last_call, dbVars>>

\* ------------------------------------------------------------------ database
NoOp == [op |-> "none"]

InitDbIdle ==
    /\ autoflush = FALSE
    /\ election = {}
    /\ state = {}
    /\ jurisdiction = {}
    /\ election_jurisdiction = {}
    /\ precinct = {}
    /\ contest = {}
    /\ candidate = {}
    /\ user = {}
    /\ jurisdiction_administration = {}
    /\ election_result = {}
    /\ file = NULL
    /\ db_before = NULL
    /\ last_op = NoOp

\* ------------------------------------ specification: activity log + worker
Init ==
    /\ now = 0
    /\ activity_log = {}
    /\ requests = [r \in ReqIds |-> Idle]
    /\ SLACK_WEBHOOK_URL \in {NULL, 1}
    /\ worker_org \in {NULL, 1}
    /\ worker_pc = "stopped"
    /\ worker_dirty = NULL
    /\ newest_delivered = NULL
    /\ delivered_ok = {}
    /\ last_call = NoCall
    /\ InitDbIdle

Next ==
    \/ \E r \in ReqIds, org \in Orgs : create_election_begin(r, org)
    \/ \E r \in ReqIds, ok \in BOOLEAN : create_election_process(r, ok)
    \/ \E r \in ReqIds, org \in Orgs : delete_election_begin(r, org)
    \/ \E r \in ReqIds : delete_election_commit(r)
    \/ StartWorker
    \/ WorkerSend
    \/ WorkerCommit
    \/ WorkerSleep
    \/ WorkerKilled

Spec == Init /\ [][Next]_vars

\* ----------------------------------------------------- claims: the worker
RecordOf(id) == CHOOSE r \in activity_log : r.id = id

C2_PostedOnlyAfter200 ==
    /\ \A r \in activity_log : r.posted_to_slack_at # NULL => r.id \in delivered_ok
    /\ (last_call.requested /\ last_call.status # HTTP_OK) =>
          /\ last_call.result = "raised"
          /\ RecordOf(last_call.record).posted_to_slack_at = NULL

\* The endpoint refused a row after having accepted an earlier one.
C2_Witness ==
    /\ last_call.requested /\ last_call.status # HTTP_OK
    /\ last_call.result = "raised"
    /\ RecordOf(last_call.record).posted_to_slack_at = NULL
    /\ \E r \in activity_log : r.posted_to_slack_at # NULL /\ r.id \in delivered_ok

\* ------------------------------------------------------------ text values
\* A text value is the sequence of its tokens; None and "" are <<>>.
NoText == <<>>

\* str.replace(old, ""): every occurrence of old is removed, wherever it is.
RECURSIVE replace(_, _)
replace(s, old) ==
    IF s = <<>> THEN <<>>
    ELSE IF Head(s) = old THEN replace(Tail(s), old)
    ELSE <<Head(s)>> \o replace(Tail(s), old)

RECURSIVE lstrip(_)
lstrip(s) == IF s # <<>> /\ Head(s) = " " THEN lstrip(Tail(s)) ELSE s

RECURSIVE rstrip(_)
rstrip(s) == IF s # <<>> /\ s[Len(s)] = " " THEN rstrip(SubSeq(s, 1, Len(s) - 1)) ELSE s

\* str.strip()
strip(s) == rstrip(lstrip(s))

\* ------------------------------------------------------ tables and session
\* The tables as one record, the form the loaders' operators work on.
DB == [election |-> election, state |-> state, jurisdiction |-> jurisdiction,
       election_jurisdiction |-> election_jurisdiction, precinct |-> precinct,
       contest |-> contest, candidate |-> candidate, user |-> user,
       jurisdiction_administration |-> jurisdiction_administration,
       election_result |-> election_result]

EmptyDB == [election |-> {}, state |-> {}, jurisdiction |-> {}, election_jurisdiction |-> {},
            precinct |-> {}, contest |-> {}, candidate |-> {}, user |-> {},
            jurisdiction_administration |-> {}, election_result |-> {}]

\* scripts/seed-states.py: the reference states and their jurisdictions.
SeedDB ==
    [EmptyDB EXCEPT
       !.state = {[id |-> 1, name |-> <<"Ohio">>], [id |-> 2, name |-> <<"Iowa">>]},
       !.jurisdiction = {[id |-> 1, name |-> <<"Adams">>, state_id |-> 1],
                         [id |-> 2, name |-> <<"Allen">>, state_id |-> 1],
                         [id |-> 3, name |-> <<"Adams">>, state_id |-> 2]}]

NoError == [type |-> "none", message |-> NoText]

\* A database session: the rows it has flushed (db), the objects added and
\* not flushed yet (pending, in the order of session.add), and the exception
\* raised so far.
Session(autoflush_, db) ==
    [autoflush |-> autoflush_, db |-> db, pending |-> <<>>, error |-> NoError]

raise(session, type, message) ==
    [session EXCEPT !.error = [type |-> type, message |-> message]]

\* session.add
add(session, table, row) ==
    [session EXCEPT !.pending = Append(@, [table |-> table, row |-> row])]

\* A storage layer that enforces none of the constraints.
Violates_never(db, table, row) == FALSE

\* The constraints of models.py that refuse a row at INSERT: primary keys,
\* UniqueConstraints and the foreign keys of election_result.
Violates(db, table, row) ==
    CASE table = "election" ->
           \E r \in db.election :
               r.organization_id = row.organization_id /\ r.name = row.name
      [] table = "election_jurisdiction" ->
           \E r \in db.election_jurisdiction :
               r.election_id = row.election_id /\ r.jurisdiction_id = row.jurisdiction_id
      [] table = "precinct" ->
           \E r \in db.precinct :
               r.jurisdiction_id = row.jurisdiction_id /\ r.name = row.name
      [] table = "contest" ->
           \E r \in db.contest : r.election_id = row.election_id /\ r.name = row.name
      [] table = "candidate" ->
           \E r \in db.candidate : r.contest_id = row.contest_id /\ r.name = row.name
      [] table = "user" ->
           \E r \in db.user : r.email = row.email
      [] table = "jurisdiction_administration" ->
           \E r \in db.jurisdiction_administration :
               r.user_id = row.user_id /\ r.jurisdiction_id = row.jurisdiction_id
      [] table = "election_result" ->
           \/ \E r \in db.election_result :
                  r.precinct_id = row.precinct_id /\ r.candidate_id = row.candidate_id
           \/ row.precinct_id \notin {p.id : p \in db.precinct}
           \/ row.candidate_id \notin {c.id : c \in db.candidate}
      [] OTHER -> FALSE

IntegrityError == [type |-> "IntegrityError",
                   message |-> <<"duplicate key value violates unique constraint">>]

\* session.flush(): the pending rows are inserted in the order they were
\* added; the first one a constraint refuses raises IntegrityError.
RECURSIVE flush(_)
flush(session) ==
    IF session.error # NoError \/ session.pending = <<>> THEN session
    ELSE LET p == Head(session.pending) IN
         IF Violates(session.db, p.table, p.row)
         THEN [session EXCEPT !.error = IntegrityError]
         ELSE flush([session EXCEPT !.db[p.table] = @ \cup {p.row},
                                    !.pending = Tail(@)])

\* A query of the session: with autoflush the pending rows are flushed first.
query(session) == IF session.autoflush THEN flush(session) ELSE session

\* str(uuid.uuid4()): an id no row of the table, flushed or pending, has.
NewId(session, table) ==
    LET used == {r.id : r \in session.db[table]} \cup
                {session.pending[i].row.id :
                    i \in {j \in DOMAIN session.pending : session.pending[j].table = table}}
    IN CHOOSE i \in 1..(Cardinality(used) + 1) : i \notin used

\* with session.begin_nested() whose exit keeps what the body wrote even when
\* the body raised.
end_nested_no_rollback(session, body) ==
    LET done == flush([body EXCEPT !.error = NoError]) IN
    [done EXCEPT !.pending = <<>>,
                 !.error = IF body.error # NoError THEN body.error ELSE done.error]

\* with session.begin_nested(): the body runs between a flush that sets a
\* savepoint and a flush that releases it; an exception out of either the body
\* or the last flush rolls the session back to the savepoint and propagates.
end_nested(session, body) ==
    LET done == flush(body) IN
    IF done.error # NoError
    THEN [session EXCEPT !.pending = <<>>, !.error = done.error]
    ELSE done

\* session.begin_nested(): flushes what is pending, then sets the savepoint.
begin_nested(session) == flush(session)

\* --------------------------------------------------- definition bulk loader
\* elections.py:92-103 looking each precinct up and creating none.
add_precincts_lookup_only(session, jurisdiction_id, precincts) == query(session)

\* elections.py:92-103: find-or-create each precinct of a county.
RECURSIVE add_precincts(_, _, _)
add_precincts(session, jurisdiction_id, precincts) ==
    IF session.error # NoError \/ precincts = <<>> THEN session
    ELSE LET itr_precinct == Head(precincts)
             s == query(session)
             found == {p \in s.db.precinct : /\ p.name = itr_precinct.name
                                             /\ p.jurisdiction_id = jurisdiction_id}
         IN IF s.error # NoError THEN s
            ELSE add_precincts(
                   IF found = {}
                   THEN add(s, "precinct",
                            [id |-> NewId(s, "precinct"), name |-> itr_precinct.name,
                             definitions_file_id |-> itr_precinct.id,
                             jurisdiction_id |-> jurisdiction_id])
                   ELSE s,
                   jurisdiction_id, Tail(precincts))

\* elections.py:81-103: resolve each county, link it, load its precincts.
RECURSIVE add_counties(_, _, _, _)
add_counties(session, election_id, state_id, counties) ==
    IF session.error # NoError \/ counties = <<>> THEN session
    ELSE LET itr_county == Head(counties)
             s == query(session)
             found == {j \in s.db.jurisdiction :
                          /\ j.name = strip(replace(itr_county.name, "County"))
                          /\ j.state_id = state_id}
         IN IF s.error # NoError THEN s
            ELSE IF found = {}
            THEN raise(s, "Conflict",
                       <<"Definitions file error: Invalid County">> \o itr_county.name)
            ELSE LET jurisdiction_id == (CHOOSE j \in found : TRUE).id
                     linked == add(s, "election_jurisdiction",
                                   [election_id |-> election_id,
                                    jurisdiction_id |-> jurisdiction_id])
                 IN add_counties(
                      add_precincts(linked, jurisdiction_id, itr_county.precincts),
                      election_id, state_id, Tail(counties))

\* elections.py:118-125
RECURSIVE add_candidates(_, _, _)
add_candidates(session, contest_id, candidates) ==
    IF candidates = <<>> THEN session
    ELSE add_candidates(
           add(session, "candidate",
               [id |-> NewId(session, "candidate"), name |-> Head(candidates).name,
                definitions_file_id |-> Head(candidates).id, contest_id |-> contest_id]),
           contest_id, Tail(candidates))

\* elections.py:127-134 without the synthetic candidate.
write_in_skipped(session, contest_id, itr_contest) == session

\* elections.py:127-134: the synthetic candidate of a contest with write-ins.
write_in(session, contest_id, itr_contest) ==
    IF itr_contest.allowWriteIns
    THEN add(session, "candidate",
             [id |-> NewId(session, "candidate"), name |-> "Write-in",
              definitions_file_id |-> ToString(Len(itr_contest.candidates)),
              contest_id |-> contest_id])
    ELSE session

\* elections.py:106-134
RECURSIVE add_contests(_, _, _)
add_contests(session, election_id, contests) ==
    IF session.error # NoError \/ contests = <<>> THEN session
    ELSE LET itr_contest == Head(contests)
             contest_id == NewId(session, "contest")
             created == add(session, "contest",
                            [id |-> contest_id, name |-> itr_contest.title,
                             allow_write_ins |-> itr_contest.allowWriteIns,
                             definitions_file_id |-> itr_contest.id,
                             election_id |-> election_id])
         IN add_contests(
              write_in(add_candidates(created, contest_id, itr_contest.candidates),
                       contest_id, itr_contest),
              election_id, Tail(contests))

\* elections.py:73-79 resolving the state to any state when none matches.
find_state_lenient(db, name) ==
    LET found == {s \in db.state : s.name = strip(replace(name, "State of"))}
    IN IF found = {} THEN db.state ELSE found

\* elections.py:73-75: State.query.filter_by(name=...).one_or_none()
find_state(db, name) ==
    {s \in db.state : s.name = strip(replace(name, "State of"))}

\* elections.py:64-134
bulk_update_from_definitions(session, election_id, definition_json) ==
    LET savepoint == begin_nested(session)
        s == query(savepoint)
        found == find_state(s.db, definition_json.state)
        body == IF found = {}
                THEN raise(s, "Conflict",
                           <<"Definitions file error: Invalid State">>
                               \o definition_json.state)
                ELSE add_contests(
                       add_counties(s, election_id, (CHOOSE x \in found : TRUE).id,
                                    definition_json.counties),
                       election_id, definition_json.contests)
    IN IF savepoint.error # NoError THEN savepoint
       ELSE end_nested(savepoint, body)

\* str(error), the text process_file stores.
str(error) == <<error.type>> \o error.message

\* No document: the contents of a File that was never uploaded.
NoDocument == [state |-> NoText, counties |-> <<>>, contests |-> <<>>]

NoFile == [contents |-> NoDocument, processing_started_at |-> NULL,
           processing_completed_at |-> NULL, processing_error |-> NoText]

\* util/process_file.py: the wrapper around a unit of work whose outcome is
\* the session it leaves: started-at is set, then completed-at, and the
\* error's text when the unit of work raised (the error is raised again).
process_file(file_, outcome, started_at, completed_at) ==
    [file_ EXCEPT !.processing_started_at = started_at,
                 !.processing_completed_at = completed_at,
                 !.processing_error = IF outcome.error # NoError
                                      THEN str(outcome.error) ELSE NoText]

\* ---------------------------------------------------- definition documents
\* Most counties, precincts, contests and candidates one document declares,
\* all together.
MaxEntries == 3

Elections == {1, 2}

SeqsUpTo(S, n) == UNION {[1..k -> S] : k \in 0..n}

DocStates == {<<"State of", " ", "Ohio">>, <<"Iowa">>, <<"State of", " ", "Utah">>}
CountyNames == {<<"Adams", " ", "County">>, <<"Adams">>, <<"Allen">>}
PrecinctEntries == {[id |-> "p1", name |-> "P1"], [id |-> "p2", name |-> "P2"]}
CandidateEntries == {[id |-> "0", name |-> "Ann"], [id |-> "1", name |-> "Bob"],
                     [id |-> "2", name |-> "Write-in"]}
ContestHeads == {[id |-> "g", title |-> "Governor"], [id |-> "s", title |-> "Senator"]}

\* The counties of at most n entries (DEFINITION_FILE_SCHEMA, elections.py:143-163;
\* only the keys the loader reads are kept).
CountiesUpTo(n) ==
    IF n < 1 THEN {}
    ELSE {[name |-> nm, precincts |-> ps] :
             nm \in CountyNames, ps \in SeqsUpTo(PrecinctEntries, n - 1)}

RECURSIVE CountyLists(_)
CountyLists(n) ==
    {<<>>} \cup UNION {{<<c>> \o rest : rest \in CountyLists(n - 1 - Len(c.precincts))} :
                          c \in CountiesUpTo(n)}

\* The contests of at most n entries (elections.py:164-189).
ContestsUpTo(n) ==
    IF n < 1 THEN {}
    ELSE {[id |-> h.id, title |-> h.title, allowWriteIns |-> w, candidates |-> cs] :
             h \in ContestHeads, w \in BOOLEAN,
             cs \in SeqsUpTo(CandidateEntries, n - 1)}

RECURSIVE ContestLists(_)
ContestLists(n) ==
    {<<>>} \cup UNION {{<<c>> \o rest : rest \in ContestLists(n - 1 - Len(c.candidates))} :
                          c \in ContestsUpTo(n)}

RECURSIVE Entries(_)
Entries(list) ==
    IF list = <<>> THEN 0
    ELSE 1 + (IF "precincts" \in DOMAIN Head(list) THEN Len(Head(list).precincts)
              ELSE Len(Head(list).candidates)) + Entries(Tail(list))

\* The documents the schema accepts, up to the bound.
Documents ==
    UNION {{[state |-> s, counties |-> cs, contests |-> ks] :
               s \in DocStates, ks \in ContestLists(MaxEntries - Entries(cs))} :
              cs \in CountyLists(MaxEntries)}

\* The document of an election loaded before the ones the model follows.
SeedDocument ==
    [state |-> <<"State of", " ", "Ohio">>,
     counties |-> <<[name |-> <<"Adams", " ", "County">>,
                     precincts |-> <<[id |-> "p1", name |-> "P1"],
                                     [id |-> "p2", name |-> "P2"]>>]>>,
     contests |-> <<[id |-> "g", title |-> "Governor", allowWriteIns |-> FALSE,
                     candidates |-> <<[id |-> "0", name |-> "Ann"],
                                      [id |-> "1", name |-> "Bob"]>>],
                    [id |-> "s", title |-> "Senator", allowWriteIns |-> FALSE,
                     candidates |-> <<[id |-> "0", name |-> "Ann"]>>]>>]

\* The Election row of an election created before the ones the model
\* follows: each in its own organization.
ElectionRow(election_id) ==
    [id |-> election_id, name |-> "General", organization_id |-> election_id]

\* The tables once the seed document is loaded for an election.
SeededDB(autoflush_, election_id) ==
    bulk_update_from_definitions(
        Session(autoflush_, [SeedDB EXCEPT !.election = {ElectionRow(election_id)}]),
        election_id, SeedDocument).db

\* The File of that election: processed before the model's clock starts.
SeedFile == [contents |-> SeedDocument, processing_started_at |-> -2,
             processing_completed_at |-> -1, processing_error |-> NoText]

\* ------------------------------------------- specification: definition load
InitWorkerIdle ==
    /\ now = 0
    /\ activity_log = {}
    /\ requests = [r \in ReqIds |-> Idle]
    /\ SLACK_WEBHOOK_URL = NULL
    /\ worker_org = NULL
    /\ worker_pc = "stopped"
    /\ worker_dirty = NULL
    /\ newest_delivered = NULL
    /\ delivered_ok = {}
    /\ last_call = NoCall

SetTables(db) ==
    /\ election' = db.election
    /\ state' = db.state
    /\ jurisdiction' = db.jurisdiction
    /\ election_jurisdiction' = db.election_jurisdiction
    /\ precinct' = db.precinct
    /\ contest' = db.contest
    /\ candidate' = db.candidate
    /\ user' = db.user
    /\ jurisdiction_administration' = db.jurisdiction_administration
    /\ election_result' = db.election_result

InitTables(db) ==
    /\ election = db.election
    /\ state = db.state
    /\ jurisdiction = db.jurisdiction
    /\ election_jurisdiction = db.election_jurisdiction
    /\ precinct = db.precinct
    /\ contest = db.contest
    /\ candidate = db.candidate
    /\ user = db.user
    /\ jurisdiction_administration = db.jurisdiction_administration
    /\ election_result = db.election_result

tableVars == <<election, state, jurisdiction, election_jurisdiction, precinct, contest, candidate,
               user, jurisdiction_administration, election_result>>

\* The states are seeded; election 2 either does not exist or was created
\* from the seed document; election 1 has no definition file yet.
InitDefinitions ==
    /\ InitWorkerIdle
    /\ autoflush \in BOOLEAN
    /\ \E seeded \in BOOLEAN :
         /\ InitTables(IF seeded THEN SeededDB(autoflush, 2) ELSE SeedDB)
         /\ file = [e \in Elections |-> IF seeded /\ e = 2 THEN SeedFile ELSE NoFile]
         /\ db_before = IF seeded THEN SeededDB(autoflush, 2) ELSE SeedDB
    /\ last_op = NoOp

\* create_election, elections.py:230-235: the uploaded document becomes the
\* election's definition file.
create_election_definition_file(e) ==
    /\ e = 1
    /\ file[e] = NoFile
    /\ \E document \in Documents :
         file' = [file EXCEPT ![e] = [NoFile EXCEPT !.contents = document]]
    /\ UNCHANGED <<workerVars, autoflush, tableVars, db_before, last_op>>

\* process_definitions_file, elections.py:53-62, called by create_election
\* (elections.py:245); a call after the first loads the same File again.
process_definitions_file(e) ==
    /\ file[e].contents # NoDocument
    /\ Later(Later(now)) <= MaxTime
    /\ now' = Later(Later(now))
    /\ LET outcome == bulk_update_from_definitions(Session(autoflush, DB), e,
                                                   file[e].contents)
       IN /\ SetTables(outcome.db)
          /\ file' = [file EXCEPT ![e] = process_file(file[e], outcome, Later(now),
                                                      Later(Later(now)))]
          /\ last_op' = [op |-> "process_definitions_file", election_id |-> e,
                         error |-> outcome.error,
                         reload |-> \/ /\ file[e].processing_completed_at # NULL
                                       /\ file[e].processing_error = NoText
                                    \/ /\ last_op.op = "process_definitions_file"
                                       /\ last_op.election_id = e
                                       /\ last_op.reload]
    /\ db_before' = DB
    /\ UNCHANGED <<activity_log, requests, SLACK_WEBHOOK_URL, worker_org, worker_pc,
                   worker_dirty, newest_delivered, delivered_ok, last_call, autoflush>>

NextDefinitions ==
    \/ \E e \in Elections : create_election_definition_file(e)
    \/ \E e \in Elections : process_definitions_file(e)

SpecDefinitions == InitDefinitions /\ [][NextDefinitions]_vars

\* -------------------------------------------- claims: the definition loader
Loaded == last_op.op = "process_definitions_file"

LoadedDocument == file[last_op.election_id].contents

\* The four tables the load writes are as they were before the call.
RowsAsBefore ==
    /\ election_jurisdiction = db_before.election_jurisdiction
    /\ precinct = db_before.precinct
    /\ contest = db_before.contest
    /\ candidate = db_before.candidate

StateMatched(name) == \E s \in state : s.name = strip(replace(name, "State of"))

\* C4: when the document's state name, stripped of "State of" and of
\* whitespace, matches no State row, the load fails, the links, precincts,
\* contests and candidates are as before the call, and the File's
\* processing_error is not empty.
C4_UnmatchedStateFails ==
    (Loaded /\ ~StateMatched(LoadedDocument.state)) =>
        /\ last_op.error # NoError
        /\ RowsAsBefore
        /\ file[last_op.election_id].processing_error # NoText

\* A document naming an unknown state and declaring a county with a precinct
\* and a contest has been loaded into tables that held rows already.
C4_Witness ==
    /\ Loaded /\ ~StateMatched(LoadedDocument.state)
    /\ \E i \in DOMAIN LoadedDocument.counties : LoadedDocument.counties[i].precincts # <<>>
    /\ LoadedDocument.contests # <<>>
    /\ precinct # {} /\ contest # {}
    /\ last_op.error.type = "Conflict"
    /\ file[last_op.election_id].processing_error # NoText

\* The jurisdictions a county of the document resolves to.
Resolved(document, county) ==
    {j \in jurisdiction :
        /\ j.name = strip(replace(county.name, "County"))
        /\ \E s \in state : s.id = j.state_id
                            /\ s.name = strip(replace(document.state, "State of"))}

\* The contest rows of the election that carry the declared title.
ContestRows(election_id, declared) ==
    {c \in contest : c.election_id = election_id /\ c.name = declared.title}

\* C5: after a successful load every declared precinct name exists exactly
\* once under the jurisdiction its county resolves to, every declared contest
\* exists exactly once under the election, and every declared candidate
\* exists exactly once under its contest.
C5_DeclaredRowsExistOnce ==
    (Loaded /\ last_op.error = NoError) =>
        /\ \A i \in DOMAIN LoadedDocument.counties :
             LET county == LoadedDocument.counties[i] IN
             /\ Cardinality(Resolved(LoadedDocument, county)) = 1
             /\ \A k \in DOMAIN county.precincts :
                  \A j \in Resolved(LoadedDocument, county) :
                     Cardinality({p \in precinct : /\ p.jurisdiction_id = j.id
                                                   /\ p.name = county.precincts[k].name}) = 1
        /\ \A i \in DOMAIN LoadedDocument.contests :
             LET declared == LoadedDocument.contests[i] IN
             /\ Cardinality(ContestRows(last_op.election_id, declared)) = 1
             /\ \A k \in DOMAIN declared.candidates :
                  \A c \in ContestRows(last_op.election_id, declared) :
                     Cardinality({x \in candidate : /\ x.contest_id = c.id
                                                    /\ x.name = declared.candidates[k].name}) = 1

\* A document with two precincts in a county, one of them new to the
\* jurisdiction, has been loaded successfully.
C5_Witness ==
    /\ Loaded /\ last_op.error = NoError
    /\ \E i \in DOMAIN LoadedDocument.counties :
          /\ Len(LoadedDocument.counties[i].precincts) = 2
          /\ LoadedDocument.counties[i].precincts[1].name
                # LoadedDocument.counties[i].precincts[2].name
    /\ precinct # db_before.precinct

C7_WriteInCandidate ==
    (Loaded /\ last_op.error = NoError) =>
        \A i \in DOMAIN LoadedDocument.contests :
            LET declared == LoadedDocument.contests[i]
                N == Len(declared.candidates)
            IN \A c \in ContestRows(last_op.election_id, declared) :
                 LET rows == {x \in candidate : x.contest_id = c.id} IN
                 IF declared.allowWriteIns
                 THEN /\ Cardinality(rows) = N + 1
                      /\ \E w \in rows : /\ w.name = "Write-in"
                                         /\ w.definitions_file_id = ToString(N)
                                         /\ \A x \in rows \ {w} : x.id < w.id
                 ELSE Cardinality(rows) = N

\* A contest that allows write-ins and declares two candidates has been
\* loaded: it has three candidate rows.
C7_Witness ==
    /\ Loaded /\ last_op.error = NoError
    /\ \E i \in DOMAIN LoadedDocument.contests :
          /\ LoadedDocument.contests[i].allowWriteIns
          /\ Len(LoadedDocument.contests[i].candidates) = 2
          /\ \E c \in ContestRows(last_op.election_id, LoadedDocument.contests[i]) :
                /\ Cardinality({x \in candidate : x.contest_id = c.id}) = 3
                /\ \E w \in candidate : /\ w.contest_id = c.id /\ w.name = "Write-in"
                                        /\ w.definitions_file_id = "2"

\* --------------------------------------------------------- result submission
\* A decimal numeral, most significant digit first, as the integer the
\* num_votes column stores for it.
RECURSIVE to_int(_)
to_int(digits) ==
    IF digits = <<>> THEN 0
    ELSE 10 * to_int(SubSeq(digits, 1, Len(digits) - 1)) + digits[Len(digits)]

\* The numVotes texts of the submissions.
VoteTexts == {<<1, 0>>, <<5>>}

PayloadCandidates == {[id |-> c, numVotes |-> v] : c \in {1, 2, 3}, v \in VoteTexts}

\* The contests of at most n entries of a payload (ELECTION_RESULT_SCHEMA,
\* jurisdictions.py:87-119).
PayloadContestsUpTo(n) ==
    IF n < 1 THEN {}
    ELSE {[id |-> i, candidates |-> cs] :
             i \in {1, 2}, cs \in SeqsUpTo(PayloadCandidates, n - 1)}

RECURSIVE PayloadContestLists(_)
PayloadContestLists(n) ==
    {<<>>} \cup UNION {{<<c>> \o rest :
                           rest \in PayloadContestLists(n - 1 - Len(c.candidates))} :
                          c \in PayloadContestsUpTo(n)}

\* The payloads the schema accepts, up to the bound: the submissions for
\* precinct 1 (precinct 2 has nothing submitted for it).
Payloads ==
    {[source |-> "Data Entry", precinct |-> 1, contests |-> cs] :
        cs \in PayloadContestLists(MaxEntries)}

\* validate_election_result, jurisdictions.py:122-132: the exception it
\* raises, if any. Only candidates[0] of each listed contest is looked up.
validate_election_result(db, request_json) ==
    IF \E i \in DOMAIN request_json.contests : request_json.contests[i].candidates = <<>>
    THEN [type |-> "IndexError", message |-> <<"list index out of range">>]
    ELSE IF \E i \in DOMAIN request_json.contests :
               \E r \in db.election_result :
                  /\ r.precinct_id = request_json.precinct
                  /\ r.candidate_id = request_json.contests[i].candidates[1].id
    THEN [type |-> "Conflict",
          message |-> <<"Results for this precinct are already uploaded">>]
    ELSE NoError

\* jurisdictions.py:189-197: one ElectionResult per candidate of a contest.
RECURSIVE add_results(_, _, _)
add_results(session, request_json, candidates) ==
    IF candidates = <<>> THEN session
    ELSE add_results(
           add(session, "election_result",
               [source |-> request_json.source, precinct_id |-> request_json.precinct,
                candidate_id |-> Head(candidates).id,
                num_votes |-> to_int(Head(candidates).numVotes)]),
           request_json, Tail(candidates))

\* jurisdictions.py:188-197
RECURSIVE add_contest_results(_, _, _)
add_contest_results(session, request_json, contests) ==
    IF contests = <<>> THEN session
    ELSE add_contest_results(add_results(session, request_json, Head(contests).candidates),
                             request_json, Tail(contests))

\* A commit whose INSERT replaces the committed row of the same precinct and
\* candidate instead of being refused.
commit_overwrite(session, body) ==
    LET rows == {body.pending[i].row : i \in DOMAIN body.pending} IN
    [body EXCEPT !.db.election_result =
                     {r \in @ : \A w \in rows : \/ w.precinct_id # r.precinct_id
                                                  \/ w.candidate_id # r.candidate_id}
                        \cup rows,
                 !.pending = <<>>]

\* db_session.commit(): the flush decides; a refused row leaves nothing of
\* the transaction in the tables.
commit(session, body) ==
    LET done == flush(body) IN
    IF done.error # NoError
    THEN [session EXCEPT !.pending = <<>>, !.error = done.error]
    ELSE done

\* upload_election_results, jurisdictions.py:182-199: the session it leaves.
upload_results(session, request_json) ==
    LET refused == validate_election_result(session.db, request_json) IN
    IF refused # NoError THEN [session EXCEPT !.error = refused]
    ELSE IF Len(request_json.contests)
              # Cardinality({request_json.contests[i].id : i \in DOMAIN request_json.contests})
    THEN raise(session, "Conflict", <<"Contests should be unique">>)
    ELSE commit(session, add_contest_results(session, request_json, request_json.contests))

PrecinctRows(rows, precinct_id) == {r \in rows : r.precinct_id = precinct_id}

upload_election_results(request_json) ==
    LET outcome == upload_results(Session(autoflush, DB), request_json) IN
    /\ SetTables(outcome.db)
    /\ last_op' = [op |-> "upload_election_results", precinct |-> request_json.precinct,
                   error |-> outcome.error,
                   rows_before |-> PrecinctRows(election_result, request_json.precinct),
                   request_json |-> request_json]
    /\ UNCHANGED <<workerVars, autoflush, file, db_before>>

\* ---------------------------------------------------------- get_election_data
\* The order of the candidate names under ORDER BY.
Collation == <<"Ann", "Bob", "Write-in">>

Rank(name) == CHOOSE i \in DOMAIN Collation : Collation[i] = name

\* elections.py:292-310: the joined rows of an election: one per tally row
\* whose candidate's contest belongs to the election and whose precinct's
\* jurisdiction is linked to it.
joined_rows(db, election_id) ==
    {[jurisdiction_id |-> j.id, jurisdiction_name |-> j.name,
      precinct_id |-> p.id, precinct_name |-> p.name,
      contest_id |-> k.id, contest_name |-> k.name,
      candidate_id |-> c.id, candidate_name |-> c.name,
      source |-> r.source, num_votes |-> r.num_votes] :
        <<r, c, k, p, j>> \in
            {t \in db.election_result \X db.candidate \X db.contest \X db.precinct
                     \X db.jurisdiction :
                /\ t[2].id = t[1].candidate_id
                /\ t[3].id = t[2].contest_id
                /\ t[3].election_id = election_id
                /\ t[4].id = t[1].precinct_id
                /\ t[5].id = t[4].jurisdiction_id
                /\ \E l \in db.election_jurisdiction :
                       l.election_id = election_id /\ l.jurisdiction_id = t[5].id}}

\* elections.py:311: ORDER BY jurisdiction, precinct, contest, candidate name.
Precedes(a, b) ==
    \/ a.jurisdiction_id < b.jurisdiction_id
    \/ /\ a.jurisdiction_id = b.jurisdiction_id
       /\ \/ a.precinct_id < b.precinct_id
          \/ /\ a.precinct_id = b.precinct_id
             /\ \/ a.contest_id < b.contest_id
                \/ /\ a.contest_id = b.contest_id
                   /\ Rank(a.candidate_name) <= Rank(b.candidate_name)

RECURSIVE order_by(_)
order_by(rows) ==
    IF rows = {} THEN <<>>
    ELSE LET first == CHOOSE a \in rows : \A b \in rows : Precedes(a, b)
         IN <<first>> \o order_by(rows \ {first})

\* elections.py:331-343 and 349-359: the entry a contest's first row opens.
contest_entry(itr_result) ==
    [id |-> itr_result.contest_id, name |-> itr_result.contest_name,
     totalBallotsCast |-> itr_result.num_votes,
     candidates |-> <<[id |-> itr_result.candidate_id, name |-> itr_result.candidate_name,
                       numVotes |-> itr_result.num_votes]>>]

\* elections.py:361-366 without the addition to totalBallotsCast.
append_candidate_only(entry, itr_result) ==
    [entry EXCEPT !.candidates = Append(@, [id |-> itr_result.candidate_id,
                                            name |-> itr_result.candidate_name,
                                            numVotes |-> itr_result.num_votes])]

\* elections.py:361-366: a further row of the latest contest.
append_candidate(entry, itr_result) ==
    [entry EXCEPT !.candidates = Append(@, [id |-> itr_result.candidate_id,
                                            name |-> itr_result.candidate_name,
                                            numVotes |-> itr_result.num_votes]),
                  !.totalBallotsCast = @ + itr_result.num_votes]

\* elections.py:319-323 closing no group.
close_group_never(acc, itr_result) == acc

\* elections.py:319-323: a row of another group closes the open one. The
\* open group temp_result_obj is <<>> for {} and <<group>> otherwise.
close_group(acc, itr_result) ==
    IF /\ acc.temp_result_obj # <<>>
       /\ acc.temp_result_obj[1].id
            # <<itr_result.jurisdiction_id, itr_result.precinct_id, acc.iter>>
    THEN [election_data |-> Append(acc.election_data, acc.temp_result_obj[1]),
          temp_result_obj |-> <<>>, iter |-> acc.iter + 1]
    ELSE acc

\* elections.py:318-366: the body of the loop for one row.
loop_body(acc0, itr_result) ==
    LET acc == close_group(acc0, itr_result) IN
    IF acc.temp_result_obj = <<>>
    THEN [acc EXCEPT !.temp_result_obj =
            <<[id |-> <<itr_result.jurisdiction_id, itr_result.precinct_id, acc.iter>>,
               jurisdictionName |-> itr_result.jurisdiction_name,
               fileName |-> itr_result.precinct_name,
               source |-> itr_result.source,
               contests |-> <<contest_entry(itr_result)>>]>>]
    ELSE LET latest_contest == Len(acc.temp_result_obj[1].contests) IN
         IF acc.temp_result_obj[1].contests[latest_contest].id # itr_result.contest_id
         THEN [acc EXCEPT !.temp_result_obj[1].contests = Append(@, contest_entry(itr_result))]
         ELSE [acc EXCEPT !.temp_result_obj[1].contests[latest_contest] =
                              append_candidate(@, itr_result)]

RECURSIVE loop(_, _)
loop(acc, election_results) ==
    IF election_results = <<>> THEN acc
    ELSE loop(loop_body(acc, Head(election_results)), Tail(election_results))

\* get_election_data, elections.py:291-369: the JSON it answers with.
election_data(db, election_id) ==
    LET election_results == order_by(joined_rows(db, election_id)) IN
    IF election_results # <<>>
    THEN LET acc == loop([election_data |-> <<>>, temp_result_obj |-> <<>>, iter |-> 0],
                         election_results)
         IN [message |-> "Entries Found",
             data |-> Append(acc.election_data, acc.temp_result_obj[1])]
    ELSE [message |-> "No entry found!", data |-> <<>>]

get_election_data(e) ==
    /\ last_op' = [op |-> "get_election_data", election_id |-> e,
                   response |-> election_data(DB, e)]
    /\ UNCHANGED <<workerVars, autoflush, tableVars, file, db_before>>

\* ------------------------------------------ specification: result submission
\* Election 1 has been created from the seed document; no tally row yet.
\* No query follows a session.add in this handler, so autoflush is immaterial.
InitResults ==
    /\ InitWorkerIdle
    /\ autoflush = FALSE
    /\ InitTables(SeededDB(autoflush, 1))
    /\ file = [e \in Elections |-> IF e = 1 THEN SeedFile ELSE NoFile]
    /\ db_before = SeededDB(autoflush, 1)
    /\ last_op = NoOp

NextResults ==
    \/ \E request_json \in Payloads : upload_election_results(request_json)

SpecResults == InitResults /\ [][NextResults]_vars

\* ------------------------------------------------ specification: election data
\* The tally tables the submissions can leave: at most one row per precinct
\* and candidate, each with one of the vote counts.
TallyRows ==
    {[source |-> "Data Entry", precinct_id |-> p, candidate_id |-> c,
      num_votes |-> to_int(v)] : p \in {1, 2}, c \in {1, 2, 3}, v \in VoteTexts}

TallyTables ==
    {rows \in SUBSET TallyRows :
        \A a, b \in rows :
           (a.precinct_id = b.precinct_id /\ a.candidate_id = b.candidate_id) => a = b}

InitData ==
    /\ InitWorkerIdle
    /\ autoflush = FALSE
    /\ \E rows \in TallyTables :
         InitTables([SeededDB(autoflush, 1) EXCEPT !.election_result = rows])
    /\ file = [e \in Elections |-> IF e = 1 THEN SeedFile ELSE NoFile]
    /\ db_before = SeededDB(autoflush, 1)
    /\ last_op = NoOp

NextData ==
    \/ \E e \in Elections : get_election_data(e)

SpecData == InitData /\ [][NextData]_vars

\* ------------------------------------- claims: submissions and election data
\* C3: once a precinct has tally rows, a further submission for it is never
\* merged in: the precinct's rows stay exactly those written before.
C3_SecondSubmissionNeverMerged ==
    (last_op.op = "upload_election_results" /\ last_op.rows_before # {}) =>
        PrecinctRows(election_result, last_op.precinct) = last_op.rows_before

RECURSIVE SumVotes(_)
SumVotes(candidates) ==
    IF candidates = <<>> THEN 0
    ELSE Head(candidates).numVotes + SumVotes(Tail(candidates))

\* The tally rows of a precinct for the candidates of a contest.
TallyOf(precinct_id, contest_id) ==
    {r \in election_result :
        /\ r.precinct_id = precinct_id
        /\ \E c \in candidate : c.id = r.candidate_id /\ c.contest_id = contest_id}

\* C10: in the answer of get_election_data every contest entry of every
\* group has totalBallotsCast equal to the sum of its candidates' numVotes,
\* and one candidate element per tally row of that precinct and contest.
C10_TotalBallotsCast ==
    last_op.op = "get_election_data" =>
        \A g \in DOMAIN last_op.response.data :
            LET group == last_op.response.data[g] IN
            \A k \in DOMAIN group.contests :
                /\ group.contests[k].totalBallotsCast = SumVotes(group.contests[k].candidates)
                /\ Len(group.contests[k].candidates)
                     = Cardinality(TallyOf(group.id[2], group.contests[k].id))

\* Ann has 10 votes and Bob 5 in a contest of a precinct: the group of the
\* precinct shows the contest with totalBallotsCast 15 and two candidates;
\* the other precinct has a group of its own.
C10_Witness ==
    /\ last_op.op = "get_election_data"
    /\ Len(last_op.response.data) = 2
    /\ \E g \in DOMAIN last_op.response.data :
          \E k \in DOMAIN last_op.response.data[g].contests :
             LET entry == last_op.response.data[g].contests[k] IN
             /\ Len(entry.candidates) = 2
             /\ entry.candidates[1].name = "Ann" /\ entry.candidates[1].numVotes = 10
             /\ entry.candidates[2].name = "Bob" /\ entry.candidates[2].numVotes = 5
             /\ entry.totalBallotsCast = 15

\* --------------------------------------------------- jurisdiction bulk loader
\* An email address is the sequence of its letters.
lower_letter(c) == IF c = "A" THEN "a" ELSE IF c = "B" THEN "b" ELSE c

\* An email address kept as the file gives it.
lower_kept(s) == s

\* str.lower()
lower(s) == [i \in DOMAIN s |-> lower_letter(s[i])]

\* Most rows of one jurisdictions file.
MaxPairs == 2

Emails == {<<"a">>, <<"A">>, <<"b">>}

\* The names a file gives: two seeded names and one no jurisdiction carries.
FileNames == {<<"Adams">>, <<"Allen">>, <<"Adams", " ", "County">>}

\* parse_csv with JURISDICTIONS_COLUMNS (jurisdictions.py:22-36): the rows as
\* (name, email) pairs, no name and no email twice in a file.
PairLists ==
    {pairs \in SeqsUpTo(FileNames \X Emails, MaxPairs) :
        \A i, k \in DOMAIN pairs :
           i # k => (pairs[i][1] # pairs[k][1] /\ pairs[i][2] # pairs[k][2])}

\* jurisdictions.py:55-57: the jurisdictions linked to the election.
linked_jurisdictions(db, election_id) ==
    {l.jurisdiction_id : l \in {x \in db.election_jurisdiction : x.election_id = election_id}}

\* jurisdictions.py:53-59 deleting nothing.
clear_admins_skipped(db, election_id) == db

\* jurisdictions.py:53-59 deleting the jurisdictions instead of their admin
\* links.
clear_jurisdictions(db, election_id) ==
    [db EXCEPT !.jurisdiction =
        {j \in @ : j.id \notin linked_jurisdictions(db, election_id)}]

\* jurisdictions.py:53-59: delete the admin links of those jurisdictions.
clear_admins(db, election_id) ==
    [db EXCEPT !.jurisdiction_administration =
        {a \in @ : a.jurisdiction_id \notin linked_jurisdictions(db, election_id)}]

\* jurisdictions.py:62-83: the loop over the pairs.
RECURSIVE add_admins(_, _, _)
add_admins(session, election_id, pairs) ==
    IF session.error # NoError \/ pairs = <<>> THEN session
    ELSE LET name == Head(pairs)[1]
             email == Head(pairs)[2]
             s1 == query(session)
             users == {u \in s1.db.user : u.email = lower(email)}
             s2 == IF users = {}
                   THEN add(s1, "user", [id |-> NewId(s1, "user"), email |-> lower(email)])
                   ELSE s1
             user_id == IF users = {} THEN NewId(s1, "user")
                        ELSE (CHOOSE u \in users : TRUE).id
             s3 == query(s2)
             found == {j \in s3.db.jurisdiction :
                          /\ j.name = name
                          /\ j.id \in linked_jurisdictions(s3.db, election_id)}
         IN IF s1.error # NoError THEN s1
            ELSE IF s3.error # NoError THEN s3
            ELSE IF Cardinality(found) > 1
            THEN raise(s3, "MultipleResultsFound", <<"Multiple rows were found">>)
            ELSE IF found = {}
            THEN raise(s3, "BadRequest", <<"Invalid Jurisdiction">>)
            ELSE add_admins(
                   add(s3, "jurisdiction_administration",
                       [user_id |-> user_id,
                        jurisdiction_id |-> (CHOOSE j \in found : TRUE).id]),
                   election_id, Tail(pairs))

\* bulk_update_jurisdictions, jurisdictions.py:42-85: the session it leaves.
bulk_update_jurisdictions(session, election_id, name_and_admin_email_pairs) ==
    LET savepoint == begin_nested(session)
        cleared == query(savepoint)
        body == add_admins([cleared EXCEPT !.db = clear_admins(cleared.db, election_id)],
                           election_id, name_and_admin_email_pairs)
    IN IF savepoint.error # NoError THEN savepoint
       ELSE end_nested(savepoint, body)

\* Two elections created from documents of the same state: election 1 linked
\* to Adams and Allen, election 2 to Adams.
LinkedDB(autoflush_) ==
    LET counties(names) == [i \in DOMAIN names |-> [name |-> names[i], precincts |-> <<>>]]
        document(names) == [state |-> <<"State of", " ", "Ohio">>,
                            counties |-> counties(names), contests |-> <<>>]
        first == bulk_update_from_definitions(
                     Session(autoflush_,
                             [SeedDB EXCEPT !.election = {ElectionRow(1), ElectionRow(2)}]), 1,
                     document(<<<<"Adams", " ", "County">>, <<"Allen">>>>))
    IN bulk_update_from_definitions(Session(autoflush_, first.db), 2,
                                    document(<<<<"Adams">>>>)).db

\* ------------------------------------------ specification: jurisdiction load
InitJurisdictions ==
    /\ InitWorkerIdle
    /\ autoflush \in BOOLEAN
    /\ InitTables(LinkedDB(autoflush))
    /\ file = [e \in Elections |-> NoFile]
    /\ db_before = LinkedDB(autoflush)
    /\ last_op = NoOp

\* process_jurisdictions_file, jurisdictions.py:28-39, for the pairs of the
\* election's file: the call of bulk_update_jurisdictions and the tables it
\* leaves.
process_jurisdictions_file(e, pairs) ==
    LET outcome == bulk_update_jurisdictions(Session(autoflush, DB), e, pairs) IN
    /\ SetTables(outcome.db)
    /\ db_before' = DB
    /\ last_op' = [op |-> "bulk_update_jurisdictions", election_id |-> e,
                   pairs |-> pairs, error |-> outcome.error]
    /\ UNCHANGED <<workerVars, autoflush, file>>

NextJurisdictions ==
    \/ \E e \in Elections, pairs \in PairLists : process_jurisdictions_file(e, pairs)

SpecJurisdictions == InitJurisdictions /\ [][NextJurisdictions]_vars


\* ------------------------------------------------- claims: jurisdiction load
\* The last operation was a run of the jurisdiction loader.
AdminsLoaded == last_op.op = "bulk_update_jurisdictions"

\* The admin links on the jurisdictions linked to the election.
AdminLinks(db, election_id) ==
    {a \in db.jurisdiction_administration :
        a.jurisdiction_id \in linked_jurisdictions(db, election_id)}

\* The jurisdictions of that name linked to the election.
NamedJurisdictions(db, election_id, name) ==
    {j \in db.jurisdiction :
        j.name = name /\ j.id \in linked_jurisdictions(db, election_id)}

\* The users a file's email address denotes.
NamedUsers(db, email) == {u \in db.user : u.email = lower(email)}

\* C8: after a successful run for an election with pair list L, the admin
\* links on the jurisdictions linked to the election are exactly the
\* (jurisdiction, user) pairs L names; no link of an earlier run survives
\* unless L names it again.
C8_FullReplace ==
    (AdminsLoaded /\ last_op.error = NoError) =>
        LET e == last_op.election_id
            L == last_op.pairs
        IN /\ \A i \in DOMAIN L :
                /\ Cardinality(NamedJurisdictions(DB, e, L[i][1])) = 1
                /\ Cardinality(NamedUsers(DB, L[i][2])) = 1
           /\ AdminLinks(DB, e) =
                {[user_id |-> (CHOOSE u \in NamedUsers(DB, L[i][2]) : TRUE).id,
                  jurisdiction_id |->
                      (CHOOSE j \in NamedJurisdictions(DB, e, L[i][1]) : TRUE).id] :
                    i \in DOMAIN L}

\* A successful run that named an admin and dropped a link of an earlier run.
C8_Witness ==
    /\ AdminsLoaded
    /\ last_op.error = NoError
    /\ last_op.pairs # <<>>
    /\ AdminLinks(db_before, last_op.election_id) \ AdminLinks(DB, last_op.election_id) # {}

\* C9: when a pair names a jurisdiction that is not linked to the election the
\* call fails with the "Invalid Jurisdiction" error and leaves users and admin
\* links as they were before the call.
C9_InvalidJurisdictionUndone ==
    (/\ AdminsLoaded
     /\ \E i \in DOMAIN last_op.pairs :
           NamedJurisdictions(db_before, last_op.election_id, last_op.pairs[i][1]) = {})
    => /\ last_op.error = [type |-> "BadRequest", message |-> <<"Invalid Jurisdiction">>]
       /\ user = db_before.user
       /\ jurisdiction_administration = db_before.jurisdiction_administration

\* A run that failed at its second pair, after the first pair had made a new
\* user, for an election whose jurisdictions had admins before the call.
C9_Witness ==
    /\ AdminsLoaded
    /\ Len(last_op.pairs) = 2
    /\ NamedJurisdictions(db_before, last_op.election_id, last_op.pairs[1][1]) # {}
    /\ NamedJurisdictions(db_before, last_op.election_id, last_op.pairs[2][1]) = {}
    /\ NamedUsers(db_before, last_op.pairs[1][2]) = {}
    /\ AdminLinks(db_before, last_op.election_id) # {}
    /\ last_op.error.type = "BadRequest"
    /\ jurisdiction_administration = db_before.jurisdiction_administration


\* ------------------------------------------- claims: the worker's main loop
\* C12: a delivery that fails (a status other than 200, or no response) does
\* not stop the worker: the loop goes on to its commit and its sleep.
C12_FailedDeliveryNotFatal ==
    (last_call.requested /\ last_call.status # HTTP_OK) => last_call.resumes

\* The posted timestamp the database holds for a row: a mark set in the
\* worker's open transaction is not committed yet.
CommittedMark(r) == IF r.id = worker_dirty THEN NULL ELSE r.posted_to_slack_at

\* C14: a record is created unposted; a committed posted timestamp is never
\* cleared or changed; no posted record is selected for delivery; and no step
\* changes the timestamp, organization or activity name of a record.
C14_RecordStateMachine ==
    [][/\ \A q \in activity_log' :
            (q.id \notin {r.id : r \in activity_log}) => q.posted_to_slack_at = NULL
       /\ \A r \in activity_log : \A q \in activity_log' :
            q.id = r.id =>
               /\ q.timestamp = r.timestamp
               /\ q.organization_id = r.organization_id
               /\ q.activity_name = r.activity_name
               /\ r.posted_to_slack_at # NULL => q.posted_to_slack_at \in {r.posted_to_slack_at, NULL}
               /\ CommittedMark(r) # NULL => q.posted_to_slack_at = r.posted_to_slack_at
       /\ \A r \in select_record(activity_log, worker_org) : r.posted_to_slack_at = NULL
      ]_vars

\* A posted and committed record, next to an unposted one, at a later instant
\* with the worker about to poll.
C14_Witness ==
    /\ worker_pc = "send"
    /\ worker_dirty = NULL
    /\ \E r, q \in Visible(activity_log) :
          /\ r.posted_to_slack_at # NULL
          /\ r.posted_to_slack_at < now
          /\ q.posted_to_slack_at = NULL
          /\ slack_message_renders(q.activity_name)

\* C18: with no webhook configured the call raises before it selects,
\* delivers or marks anything, and the worker stops.
C18_NoWebhookFatal ==
    (SLACK_WEBHOOK_URL = NULL) =>
        /\ last_call # NoCall =>
              /\ last_call.result = "raised"
              /\ last_call.record = NULL
              /\ ~last_call.requested
              /\ ~last_call.resumes
        /\ \A r \in activity_log : r.posted_to_slack_at = NULL
        /\ delivered_ok = {}
        /\ worker_pc \in {"stopped", "send"}

\* The unconfigured worker was called while an unposted record was waiting.
C18_Witness ==
    /\ SLACK_WEBHOOK_URL = NULL
    /\ last_call.result = "raised"
    /\ worker_pc = "stopped"
    /\ Unposted(activity_log, worker_org) # {}


\* ---------------------------------------------- specification: fair worker
\* One call of send_new_slack_notification that the endpoint answers 200.
Delivered200 == WorkerSend /\ last_call'.requested /\ last_call'.status = HTTP_OK

\* The worker is scheduled fairly: a stopped worker is started again, a
\* sleeping one wakes, the call and the commit after it are reached again and
\* again however often the process is killed, and the endpoint answers 200
\* again and again.
LiveSpec ==
    /\ Spec
    /\ WF_vars(StartWorker)
    /\ WF_vars(WorkerSleep)
    /\ SF_vars(WorkerSend)
    /\ SF_vars(WorkerCommit)
    /\ SF_vars(Delivered200)

\* The record is committed and in the scope of a configured worker.
Deliverable(id) ==
    /\ SLACK_WEBHOOK_URL # NULL
    /\ \E r \in Visible(activity_log) :
          r.id = id /\ (worker_org = NULL \/ r.organization_id = worker_org)

\* The record's posted timestamp is set and committed.
Posted(id) == \E r \in activity_log : r.id = id /\ CommittedMark(r) # NULL

\* C13: under fair scheduling of the worker and an endpoint that answers 200
\* again and again, every committed record in the worker's scope is eventually
\* marked posted.
C13_NoDeliveryLost == \A id \in RecordIds : Deliverable(id) ~> Posted(id)


\* ------------------------------------ claims: counties of a definition load
\* The first county of the document that resolves to no jurisdiction of the
\* document's state (0 when every county resolves).
FirstInvalidCounty(document) ==
    LET invalid == {i \in DOMAIN document.counties :
                       Resolved(document, document.counties[i]) = {}}
    IN IF invalid = {} THEN 0
       ELSE CHOOSE i \in invalid : \A k \in invalid : i <= k

LinkPresent(document, election_id) ==
    \/ \E i \in DOMAIN document.counties :
          \E j \in Resolved(document, document.counties[i]) :
             [election_id |-> election_id, jurisdiction_id |-> j.id]
                \in db_before.election_jurisdiction
    \/ \E i, k \in DOMAIN document.counties :
          /\ i # k
          /\ Resolved(document, document.counties[i])
               \cap Resolved(document, document.counties[k]) # {}

\* The document resolves everywhere and declares links only: no precinct and
\* no contest.
LinksOnly(document) ==
    /\ StateMatched(document.state)
    /\ FirstInvalidCounty(document) = 0
    /\ document.contests = <<>>
    /\ \A i \in DOMAIN document.counties : document.counties[i].precincts = <<>>

\* C20: linking is create-if-absent: a load whose only writes are links does
\* not fail when a link it declares exists already or is declared twice, and
\* the election is linked to each resolved jurisdiction afterwards.
C20_LinkCreateIfAbsent ==
    (/\ Loaded
     /\ LinksOnly(LoadedDocument)
     /\ LinkPresent(LoadedDocument, last_op.election_id))
    => /\ last_op.error = NoError
       /\ \A i \in DOMAIN LoadedDocument.counties :
             \A j \in Resolved(LoadedDocument, LoadedDocument.counties[i]) :
                [election_id |-> last_op.election_id, jurisdiction_id |-> j.id]
                   \in election_jurisdiction


\* ------------------------------------------------ create_election, a request
\* Most counties, precincts, contests and candidates, all together, of the
\* definition document of a request, and most rows of its jurisdictions file.
MaxRequestEntries == 1

RequestDocuments ==
    {document \in Documents :
        Entries(document.counties) + Entries(document.contests) <= MaxRequestEntries}

RequestPairLists == {pairs \in PairLists : Len(pairs) <= MaxRequestEntries}

\* elections.py:49-51: the error for a name the organization uses already.
DuplicateNameError(name) ==
    [type |-> "Conflict",
     message |-> <<"An election with name", name,
                   "already exists within your organization">>]

\* validate_new_election, elections.py:43-51: the exception it raises, if any.
validate_new_election(db, election_) ==
    IF \E r \in db.election : /\ r.name = election_.electionName
                              /\ r.organization_id = election_.organizationId
    THEN DuplicateNameError(election_.electionName)
    ELSE NoError

\* The end of a request that keeps what the session wrote whatever happened.
request_end_persisted(db, session) == session.db

\* The end of a request, elections.py:256: db_session.commit() when the
\* handler got there; an exception on the way leaves the handler before the
\* commit and the transaction is rolled back.
request_end(db, session) ==
    IF session.error # NoError THEN db ELSE commit(session, session).db

\* The File a request attaches to its election (elections.py:224-235).
NewFile(contents) == [NoFile EXCEPT !.contents = contents]

\* create_election, elections.py:200-257, as a function of the committed
\* tables db, the committed log, the clock t and the request: the tables and
\* the log it leaves committed, the two File objects as the session held them
\* when the handler ended, the tables as the session held them then, the
\* exception, the step that raised it and the clock.
create_election_request(db, log, t, autoflush_, election_id, request_) ==
    LET refused == validate_new_election(db, request_)
        tx == election_id
        org == request_.organizationId
        created == flush(add(Session(autoflush_, db), "election",
                             [id |-> election_id, name |-> request_.electionName,
                              organization_id |-> org]))
        t1 == Later(t)
        log1 == record_activity(log, tx, "CreateElection", org, t1)
        defined == bulk_update_from_definitions(created, election_id, request_.definition)
        definition_file == process_file(NewFile(request_.definition), defined,
                                        Later(t1), Later(Later(t1)))
        t3 == definition_file.processing_completed_at
        log2 == record_activity(log1, tx, "UploadAndProcessFile", org,
                                definition_file.processing_started_at)
        flushed == flush(defined)
        administered == bulk_update_jurisdictions(flushed, election_id,
                                                  request_.jurisdictions)
        jurisdictions_file == process_file(NewFile(request_.jurisdictions), administered,
                                           Later(t3), Later(Later(t3)))
        log3 == record_activity(log2, tx, "UploadAndProcessFile", org,
                                jurisdictions_file.processing_started_at)
        failed(session, step, log_, definition_file_, jurisdictions_file_, t_) ==
            [db |-> request_end(db, session), log |-> rollback_request(log_, tx),
             definition_file |-> definition_file_,
             jurisdictions_file |-> jurisdictions_file_,
             session_db |-> session.db, error |-> session.error, step |-> step,
             now |-> t_]
    IN IF refused # NoError
       THEN failed(raise(Session(autoflush_, db), refused.type, refused.message),
                   "validate_new_election", log, NoFile, NoFile, t)
       ELSE IF created.error # NoError
       THEN failed(created, "flush", log, NewFile(request_.definition),
                   NewFile(request_.jurisdictions), t)
       ELSE IF defined.error # NoError
       THEN failed(defined, "process_definitions_file", log1, definition_file,
                   NewFile(request_.jurisdictions), t3)
       ELSE IF flushed.error # NoError
       THEN failed(flushed, "flush", log2, definition_file,
                   NewFile(request_.jurisdictions), t3)
       ELSE IF administered.error # NoError
       THEN failed(administered, "process_jurisdictions_file", log2, definition_file,
                   jurisdictions_file, jurisdictions_file.processing_completed_at)
       ELSE [db |-> request_end(db, administered),
             log |-> commit_request(log3, tx, newest_delivered),
             definition_file |-> definition_file,
             jurisdictions_file |-> jurisdictions_file,
             session_db |-> administered.db, error |-> NoError, step |-> "commit",
             now |-> jurisdictions_file.processing_completed_at]

\* The requests: a name, an organization and the two files.
Requests ==
    {[electionName |-> "General", organizationId |-> org, definition |-> document,
      jurisdictions |-> pairs] :
        org \in Orgs, document \in RequestDocuments, pairs \in RequestPairLists}

\* POST /election (elections.py:198-257) for an election id no row has. The
\* history keeps the request as far as the handler read it: the files are
\* read after validate_new_election (elections.py:224-235).
create_election(election_id) ==
    /\ election_id \notin {r.id : r \in election}
    /\ \A other \in Elections : other < election_id => other \in {r.id : r \in election}
    /\ Cardinality(activity_log) + 3 <= MaxRecords
    /\ Later(Later(Later(Later(Later(now))))) <= MaxTime
    /\ \E request_ \in Requests :
         \E outcome \in {create_election_request(DB, activity_log, now, autoflush,
                                                 election_id, request_)} :
            /\ SetTables(outcome.db)
            /\ activity_log' = outcome.log
            /\ now' = outcome.now
            /\ file' = IF outcome.error = NoError
                       THEN [file EXCEPT ![election_id] = outcome.definition_file]
                       ELSE file
            /\ last_op' = [op |-> "create_election", election_id |-> election_id,
                           request |-> IF outcome.step = "validate_new_election"
                                       THEN [request_ EXCEPT !.definition = NoDocument,
                                                             !.jurisdictions = <<>>]
                                       ELSE request_,
                           error |-> outcome.error,
                           step |-> outcome.step,
                           definition_file |-> outcome.definition_file,
                           jurisdictions_file |-> outcome.jurisdictions_file,
                           session_db |-> outcome.session_db,
                           log_before |-> activity_log]
    /\ db_before' = DB
    /\ UNCHANGED <<requests, SLACK_WEBHOOK_URL, worker_org, worker_pc, worker_dirty,
                   newest_delivered, delivered_ok, last_call, autoflush>>

\* ---------------------------------------------- specification: the requests
\* The states are seeded; election 1, named General in organization 1, either
\* exists, created from the seed document, or does not.
InitCreate ==
    /\ InitWorkerIdle
    /\ autoflush \in BOOLEAN
    /\ \E seeded \in BOOLEAN :
         /\ InitTables(IF seeded THEN SeededDB(autoflush, 1) ELSE SeedDB)
         /\ file = [e \in Elections |-> IF seeded /\ e = 1 THEN SeedFile ELSE NoFile]
         /\ db_before = IF seeded THEN SeededDB(autoflush, 1) ELSE SeedDB
    /\ last_op = NoOp

NextCreate ==
    \/ \E election_id \in Elections : create_election(election_id)

SpecCreate == InitCreate /\ [][NextCreate]_vars


\* ------------------------------------------------- claims: create_election
Created == last_op.op = "create_election"

\* The File whose processing raised in the latest request.
FailedFile ==
    IF last_op.step = "process_definitions_file" THEN last_op.definition_file
    ELSE last_op.jurisdictions_file

\* C11: when the unit of work wrapped by process_file fails, the File has a
\* non-empty processing_error, its started-at and completed-at are set, the
\* error is raised to the caller, and the File with that text is in the
\* database once the request has ended.
C11_ErrorRecordedDurably ==
    (Created /\ last_op.step \in {"process_definitions_file", "process_jurisdictions_file"})
    => /\ FailedFile.processing_error # NoText
       /\ FailedFile.processing_started_at # NULL
       /\ FailedFile.processing_completed_at # NULL
       /\ last_op.error # NoError
       /\ last_op.election_id \in {r.id : r \in election}
       /\ last_op.step = "process_definitions_file" =>
             file[last_op.election_id] = last_op.definition_file

\* C16: the loaders do not commit: when the request fails, nothing it wrote is
\* in the database, neither the election, nor the rows of a definitions load
\* that had succeeded, nor admin links, nor activity records.
C16_LoadersDoNotCommit ==
    (Created /\ last_op.error # NoError) =>
        /\ DB = db_before
        /\ activity_log = last_op.log_before
        /\ file[last_op.election_id] = NoFile

\* A request failed in the jurisdictions load after a definitions load that
\* had linked a jurisdiction in the session.
C16_Witness ==
    /\ Created
    /\ last_op.step = "process_jurisdictions_file"
    /\ last_op.error.type = "BadRequest"
    /\ last_op.definition_file.processing_error = NoText
    /\ \E l \in last_op.session_db.election_jurisdiction :
          l.election_id = last_op.election_id
    /\ \E r \in last_op.session_db.election : r.id = last_op.election_id
    /\ DB = db_before

\* C19: the error for an unresolved state or county of a definition load is
\* of another kind than the conflict error validate_new_election raises for a
\* name the organization uses already.
C19_ErrorKindsApart ==
    (/\ Created
     /\ last_op.step = "process_definitions_file"
     /\ \/ ~StateMatched(last_op.request.definition.state)
        \/ FirstInvalidCounty(last_op.request.definition) # 0)
    => last_op.error.type # DuplicateNameError(last_op.request.electionName).type


\* ------------------------------------------ concurrent result submissions
\* Most candidates of the contest of a payload of the concurrent submissions.
MaxUploadEntries == 2

\* The payloads request r submits: one contest of precinct 1 with candidates
\* of the Governor contest, each request with a vote count of its own, so
\* that a row shows which request wrote it.
RacingPayloads(r) ==
    {[source |-> "Data Entry", precinct |-> 1,
      contests |-> <<[id |-> 1, candidates |-> cs]>>] :
        cs \in SeqsUpTo({[id |-> c, numVotes |-> IF r = 1 THEN <<5>> ELSE <<1, 0>>] :
                            c \in {1, 2}},
                        MaxUploadEntries)}

\* upload_election_results, jurisdictions.py:183-186: the checks before any
\* row is added; they read the committed rows.
upload_checks(db, request_json) ==
    LET refused == validate_election_result(db, request_json) IN
    IF refused # NoError THEN refused
    ELSE IF Len(request_json.contests)
              # Cardinality({request_json.contests[i].id : i \in DOMAIN request_json.contests})
    THEN [type |-> "Conflict", message |-> <<"Contests should be unique">>]
    ELSE NoError

\* The (precinct, candidate) pairs a payload has rows for.
PayloadPairs(request_json) ==
    UNION {{<<request_json.precinct, request_json.contests[i].candidates[k].id>> :
               k \in DOMAIN request_json.contests[i].candidates} :
              i \in DOMAIN request_json.contests}

\* jurisdictions.py:183-186 of request r: the checks pass and the handler
\* goes on, or they raise and the request ends.
upload_validate(r, request_json) ==
    LET refused == upload_checks(DB, request_json) IN
    /\ requests[r].pc = "idle"
    /\ requests' = [requests EXCEPT ![r] =
                      IF refused = NoError
                      THEN [pc |-> "upload_commit", org |-> NULL,
                            request_json |-> request_json]
                      ELSE Idle]
    /\ last_op' = [op |-> "upload_validate", precinct |-> request_json.precinct,
                   error |-> refused]
    /\ UNCHANGED <<now, activity_log, SLACK_WEBHOOK_URL, worker_org, worker_pc,
                   worker_dirty, newest_delivered, delivered_ok, last_call, autoflush,
                   tableVars, file, db_before>>

\* jurisdictions.py:188-198 of request r: the rows are added and the
\* transaction commits, or the INSERT of one of them is refused and the
\* transaction is rolled back.
upload_commit(r) ==
    /\ requests[r].pc = "upload_commit"
    /\ LET request_json == requests[r].request_json
           session == Session(autoflush, DB)
           outcome == commit(session,
                             add_contest_results(session, request_json,
                                                 request_json.contests))
       IN /\ SetTables(outcome.db)
          /\ last_op' = [op |-> "upload_commit", precinct |-> request_json.precinct,
                         error |-> outcome.error, rows_before |-> election_result,
                         request_json |-> request_json]
    /\ requests' = [requests EXCEPT ![r] = Idle]
    /\ UNCHANGED <<now, activity_log, SLACK_WEBHOOK_URL, worker_org, worker_pc,
                   worker_dirty, newest_delivered, delivered_ok, last_call, autoflush,
                   file, db_before>>

\* ------------------------------- specification: concurrent result submission
NextUploads ==
    \/ \E r \in ReqIds : \E request_json \in RacingPayloads(r) :
          upload_validate(r, request_json)
    \/ \E r \in ReqIds : upload_commit(r)

SpecUploads == InitResults /\ [][NextUploads]_vars

\* C17: the table never holds two rows for one (precinct, candidate); a
\* request that passed the checks and whose payload has a pair another
\* request committed in the meantime fails at the constraint, writes none of
\* its rows and leaves the committed rows, vote counts included, as they were.
C17_RaceRefusedAtConstraint ==
    /\ \A a, b \in election_result :
          (a.precinct_id = b.precinct_id /\ a.candidate_id = b.candidate_id) => a = b
    /\ (/\ last_op.op = "upload_commit"
        /\ \E row \in last_op.rows_before :
              <<row.precinct_id, row.candidate_id>> \in PayloadPairs(last_op.request_json))
       => /\ last_op.error = IntegrityError
          /\ election_result = last_op.rows_before

\* Two requests passed the checks for the same first candidate with
\* different vote counts; one committed, the other was refused at its commit,
\* which also carried a row for a candidate nobody had submitted.
C17_Witness ==
    /\ last_op.op = "upload_commit"
    /\ last_op.error = IntegrityError
    /\ election_result = last_op.rows_before
    /\ LET candidates == last_op.request_json.contests[1].candidates IN
       /\ Len(candidates) = 2
       /\ \E row \in election_result :
             /\ row.candidate_id = candidates[1].id
             /\ row.num_votes # to_int(candidates[1].numVotes)
       /\ \A row \in election_result : row.candidate_id # candidates[2].id

\* ----------------------------------- claims: precincts of a definition load
\* The document resolves everywhere, declares no contest and no link that is
\* present already: the precincts are the only rows of its load that can
\* meet a row of the same key.
PrecinctsDecide(document, election_id) ==
    /\ StateMatched(document.state)
    /\ FirstInvalidCounty(document) = 0
    /\ document.contests = <<>>
    /\ ~LinkPresent(document, election_id)

\* The first entry of the county that declares the name.
FirstDeclared(county, name) ==
    county.precincts[CHOOSE k \in DOMAIN county.precincts :
                        /\ county.precincts[k].name = name
                        /\ \A l \in DOMAIN county.precincts :
                              county.precincts[l].name = name => k <= l]

\* A precinct name is declared twice in one county of the document.
DeclaredTwice(document) ==
    \E i \in DOMAIN document.counties :
       \E k, l \in DOMAIN document.counties[i].precincts :
          /\ k # l
          /\ document.counties[i].precincts[k].name = document.counties[i].precincts[l].name

\* C21: precincts are found or created: a load that can only meet rows of
\* precincts succeeds; every precinct row that existed is kept with its id
\* and its external identifier; every declared name exists once under its
\* jurisdiction, in a row that existed or in a new one that carries the
\* declared external identifier; and no other row is created.
C21_PrecinctFindOrCreate ==
    (Loaded /\ PrecinctsDecide(LoadedDocument, last_op.election_id)) =>
        /\ last_op.error = NoError
        /\ db_before.precinct \subseteq precinct
        /\ \A i \in DOMAIN LoadedDocument.counties :
             LET county == LoadedDocument.counties[i] IN
             \A k \in DOMAIN county.precincts :
                \A j \in Resolved(LoadedDocument, county) :
                   LET rows == {p \in precinct : /\ p.jurisdiction_id = j.id
                                                 /\ p.name = county.precincts[k].name}
                   IN /\ Cardinality(rows) = 1
                      /\ \A p \in rows \ db_before.precinct :
                            p.definitions_file_id
                               = FirstDeclared(county, county.precincts[k].name).id
        /\ \A p \in precinct \ db_before.precinct :
             \E i \in DOMAIN LoadedDocument.counties :
                /\ \E j \in Resolved(LoadedDocument, LoadedDocument.counties[i]) :
                      j.id = p.jurisdiction_id
                /\ \E k \in DOMAIN LoadedDocument.counties[i].precincts :
                      LoadedDocument.counties[i].precincts[k].name = p.name

SameLetter(c, d) == c = d \/ {c, d} \in {{"A", "a"}, {"B", "b"}}

\* The two addresses differ in letter case at most.
SameAddress(s, t) ==
    /\ Len(s) = Len(t)
    /\ \A i \in DOMAIN s : SameLetter(s[i], t[i])

IsLowercase(s) == \A i \in DOMAIN s : s[i] \notin {"A", "B"}

\* The users whose address is the given one up to letter case.
UsersOf(db, email) == {u \in db.user : SameAddress(u.email, email)}

\* Every pair of the file names a jurisdiction linked to the election and the
\* address, up to case, of a user who existed before the call.
KnownPairs(pairs, election_id) ==
    \A i \in DOMAIN pairs :
       /\ NamedJurisdictions(db_before, election_id, pairs[i][1]) # {}
       /\ UsersOf(db_before, pairs[i][2]) # {}

\* C23: users are found or created by lowercased email: every stored email is
\* lowercase and no two users carry addresses that differ in case at most;
\* after a successful load a pair whose address, up to case, was a user's
\* before the call is linked to that user, who is kept as the only user of
\* the address; and a load all of whose pairs name such users succeeds and
\* creates no user.
C23_UsersByLowercaseEmail ==
    /\ \A u \in user : IsLowercase(u.email)
    /\ \A u, v \in user : SameAddress(u.email, v.email) => u = v
    /\ (AdminsLoaded /\ last_op.error = NoError) =>
          \A i \in DOMAIN last_op.pairs :
             \A u \in UsersOf(db_before, last_op.pairs[i][2]) :
                /\ UsersOf(DB, last_op.pairs[i][2]) = {u}
                /\ \E j \in NamedJurisdictions(DB, last_op.election_id, last_op.pairs[i][1]) :
                      [user_id |-> u.id, jurisdiction_id |-> j.id]
                         \in jurisdiction_administration
    /\ (AdminsLoaded /\ KnownPairs(last_op.pairs, last_op.election_id)) =>
          /\ last_op.error = NoError
          /\ user = db_before.user

\* A file gave an email in capitals whose lowercase form a user carried: the
\* load linked that user and created none.
C23_Witness ==
    /\ AdminsLoaded
    /\ last_op.error = NoError
    /\ user = db_before.user
    /\ \E i \in DOMAIN last_op.pairs :
          /\ ~IsLowercase(last_op.pairs[i][2])
          /\ \E u \in UsersOf(DB, last_op.pairs[i][2]) :
                \E a \in jurisdiction_administration \ db_before.jurisdiction_administration :
                   a.user_id = u.id

\* ------------------------------------------- claims: groups of election data
\* The rows the query of the answered election returns.
AnsweredRows == joined_rows(DB, last_op.election_id)

\* The rows of a (jurisdiction, precinct) key.
RowsOfKey(rows, jurisdiction_id, precinct_id) ==
    {r \in rows : r.jurisdiction_id = jurisdiction_id /\ r.precinct_id = precinct_id}

RECURSIVE CandidateElements(_)
CandidateElements(contests) ==
    IF contests = <<>> THEN 0
    ELSE Len(Head(contests).candidates) + CandidateElements(Tail(contests))

\* C24: the answer of get_election_data has exactly one group per
\* (jurisdiction, precinct) key of the rows and, in a group, exactly one
\* contest entry per contest id of the key's rows; every row is exactly one
\* candidate element, in the entry of its contest in the group of its key;
\* groups follow the order of the keys and contest entries the order of the
\* contest ids.
C24_OneGroupPerKey ==
    last_op.op = "get_election_data" =>
        LET data == last_op.response.data IN
        /\ {<<data[g].id[1], data[g].id[2]>> : g \in DOMAIN data}
             = {<<r.jurisdiction_id, r.precinct_id>> : r \in AnsweredRows}
        /\ \A g, h \in DOMAIN data :
             g < h => \/ data[g].id[1] < data[h].id[1]
                      \/ data[g].id[1] = data[h].id[1] /\ data[g].id[2] < data[h].id[2]
        /\ \A g \in DOMAIN data :
             LET group == data[g]
                 rows == RowsOfKey(AnsweredRows, group.id[1], group.id[2])
             IN /\ {group.contests[k].id : k \in DOMAIN group.contests}
                     = {r.contest_id : r \in rows}
                /\ \A k, l \in DOMAIN group.contests :
                     k < l => group.contests[k].id < group.contests[l].id
                /\ CandidateElements(group.contests) = Cardinality(rows)
                /\ \A r \in rows :
                     \E k \in DOMAIN group.contests :
                        /\ group.contests[k].id = r.contest_id
                        /\ Cardinality({c \in DOMAIN group.contests[k].candidates :
                                           group.contests[k].candidates[c].id
                                              = r.candidate_id}) = 1
                        /\ \E c \in DOMAIN group.contests[k].candidates :
                              group.contests[k].candidates[c]
                                 = [id |-> r.candidate_id, name |-> r.candidate_name,
                                    numVotes |-> r.num_votes]

\* Rows of two precincts, of two contests in one of them and of two
\* candidates in one contest: two groups, one with two contest entries.
C24_Witness ==
    /\ last_op.op = "get_election_data"
    /\ Len(last_op.response.data) = 2
    /\ Len(last_op.response.data[1].contests) = 2
    /\ Len(last_op.response.data[1].contests[1].candidates) = 2
    /\ Len(last_op.response.data[2].contests) = 1
    /\ Cardinality(AnsweredRows) = 4

\* ------------------------------------------------- claims: one poll cycle
\* The records a step marks posted.
MarkedByStep ==
    {q.id : q \in {x \in activity_log' : x.posted_to_slack_at # NULL}}
        \ {r.id : r \in {x \in activity_log : x.posted_to_slack_at # NULL}}

\* C25: a poll cycle attempts one delivery at most and marks one record at
\* most: no step marks two records; a record is marked only by a call that
\* selected it and made its one request; and in a running process a call is
\* followed by the commit and the commit by the sleep, so that the next call
\* comes after a sleep.
C25_OneDeliveryPerCycle ==
    [][/\ Cardinality(MarkedByStep) <= 1
       /\ MarkedByStep # {} =>
             /\ worker_pc = "send"
             /\ last_call'.requested
             /\ MarkedByStep = {last_call'.record}
       /\ last_call' # last_call => worker_pc = "send"
       /\ (worker_pc = "send" /\ worker_pc' # "send") => worker_pc' \in {"commit", "stopped"}
       /\ (worker_pc = "commit" /\ worker_pc' # "commit") => worker_pc' \in {"sleep", "stopped"}
       /\ (worker_pc # "send" /\ worker_pc' = "send") => worker_pc \in {"sleep", "stopped"}
      ]_vars

\* The loop sleeps after a cycle that delivered one record and marked it,
\* while another record it can deliver waits for the next cycle.
C25_Witness ==
    /\ worker_pc = "sleep"
    /\ last_call.requested
    /\ last_call.status = HTTP_OK
    /\ {r.id : r \in {x \in activity_log : x.posted_to_slack_at # NULL}} = {last_call.record}
    /\ \E q \in Unposted(activity_log, worker_org) : slack_message_renders(q.activity_name)

\* ------------------------------------------- claims: kinds of activity record
\* C26: every record the request handlers append is of a kind slack_message
\* renders, and no call of the worker raises while it renders the record it
\* selected: a call that selected a record and raised had made its request.
C26_AppendedKindsRender ==
    /\ \A r \in activity_log : slack_message_renders(r.activity_name)
    /\ (last_call.result = "raised" /\ last_call.record # NULL) => last_call.requested

\* ------------------------------------- claims: admin links of other elections
\* The admin links on jurisdictions that are not linked to the election.
LinksElsewhere(links, election_id) ==
    {a \in links : a.jurisdiction_id \notin linked_jurisdictions(DB, election_id)}

\* C27: a load for an election changes no admin link on a jurisdiction that
\* is not linked to it, and when it follows a successful load for another
\* election, the links that load established on jurisdictions linked to both
\* elections are still present after it.
C27_OtherElectionsLinksKept ==
    [][(last_op'.op = "bulk_update_jurisdictions") =>
          /\ LinksElsewhere(jurisdiction_administration', last_op'.election_id)
               = LinksElsewhere(jurisdiction_administration, last_op'.election_id)
          /\ (/\ AdminsLoaded
              /\ last_op.error = NoError
              /\ last_op.election_id # last_op'.election_id)
             => {a \in AdminLinks(DB, last_op.election_id) :
                    a.jurisdiction_id \in linked_jurisdictions(DB, last_op'.election_id)}
                  \subseteq jurisdiction_administration'
      ]_vars

\* ------------------------------------------------- status of the submissions
\* itr_contest.candidates[0]: the relationship is ordered by Candidate.name
\* (models.py:267-273); a contest without candidates has no such element.
first_candidate(db, contest_id) ==
    LET candidates == {c \in db.candidate : c.contest_id = contest_id}
    IN {c \in candidates : \A x \in candidates : Rank(c.name) <= Rank(x.name)}

\* jurisdictions.py:168-171 and elections.py:280-283: record_found of a
\* precinct: a tally row of the precinct for the first candidate of a contest
\* of the election.
record_found(db, election_id, precinct_id) ==
    \E k \in {x \in db.contest : x.election_id = election_id} :
       \E c \in first_candidate(db, k.id) :
          \E r \in db.election_result :
             r.precinct_id = precinct_id /\ r.candidate_id = c.id

\* jurisdiction.precincts (models.py:134-140)
precincts_of(db, jurisdiction_id) == {p \in db.precinct : p.jurisdiction_id = jurisdiction_id}

\* check_election_result_status, jurisdictions.py:159-178: the JSON it
\* answers with (stats are part of the answer when a precinct is missing).
election_result_status(db, election_id, jurisdiction_id) ==
    LET found == {p \in precincts_of(db, jurisdiction_id) :
                     record_found(db, election_id, p.id)}
        records_status ==
            [uploaded |-> Cardinality(found),
             notUploaded |-> Cardinality(precincts_of(db, jurisdiction_id) \ found)]
    IN IF records_status.notUploaded # 0
       THEN [status |-> "not-uploaded", stats |-> records_status]
       ELSE [status |-> "uploaded", stats |-> records_status]

\* get_definition_file, elections.py:270-286: the precincts it lists (the
\* contests of the answer are left out).
definition_file_precincts(db, election_id, jurisdiction_id) ==
    {[id |-> p.id, name |-> p.name] :
        p \in {x \in precincts_of(db, jurisdiction_id) :
                  ~record_found(db, election_id, x.id)}}

\* GET /election/<election_id>/jurisdiction/<jurisdiction_id>/results
check_election_result_status(election_id, jurisdiction_id) ==
    /\ election_id \in {r.id : r \in election}
    /\ jurisdiction_id \in linked_jurisdictions(DB, election_id)
    /\ last_op' = [op |-> "check_election_result_status", election_id |-> election_id,
                   jurisdiction_id |-> jurisdiction_id,
                   response |-> election_result_status(DB, election_id, jurisdiction_id)]
    /\ UNCHANGED <<workerVars, autoflush, tableVars, file, db_before>>

\* GET /election/<election_id>/jurisdiction/<jurisdiction_id>/definitions
get_definition_file(election_id, jurisdiction_id) ==
    /\ election_id \in {r.id : r \in election}
    /\ jurisdiction_id \in linked_jurisdictions(DB, election_id)
    /\ last_op' = [op |-> "get_definition_file", election_id |-> election_id,
                   jurisdiction_id |-> jurisdiction_id,
                   precincts |-> definition_file_precincts(DB, election_id, jurisdiction_id)]
    /\ UNCHANGED <<workerVars, autoflush, tableVars, file, db_before>>

\* --------------------------------- specification: submissions and their status
NextStatus ==
    \/ \E request_json \in Payloads : upload_election_results(request_json)
    \/ \E election_id \in Elections, jurisdiction_id \in {j.id : j \in jurisdiction} :
          check_election_result_status(election_id, jurisdiction_id)
    \/ \E election_id \in Elections, jurisdiction_id \in {j.id : j \in jurisdiction} :
          get_definition_file(election_id, jurisdiction_id)

SpecStatus == InitResults /\ [][NextStatus]_vars

\* ------------------------------------------- claims: status of a precinct
\* The precincts of the jurisdiction that have tally rows: those a
\* submission succeeded for.
WithResults(jurisdiction_id) ==
    {p \in precincts_of(DB, jurisdiction_id) : PrecinctRows(election_result, p.id) # {}}

\* C28: the three checks agree with the tally rows: check_election_result_status
\* counts as uploaded exactly the precincts of the jurisdiction that have
\* rows, get_definition_file lists exactly those that have none, and a
\* submission for a precinct that has rows is refused as already uploaded.
C28_ChecksAgree ==
    /\ last_op.op = "check_election_result_status" =>
          /\ last_op.response.stats.uploaded
               = Cardinality(WithResults(last_op.jurisdiction_id))
          /\ last_op.response.stats.notUploaded
               = Cardinality(precincts_of(DB, last_op.jurisdiction_id)
                                \ WithResults(last_op.jurisdiction_id))
    /\ last_op.op = "get_definition_file" =>
          {p.id : p \in last_op.precincts}
             = {p.id : p \in precincts_of(DB, last_op.jurisdiction_id)
                                \ WithResults(last_op.jurisdiction_id)}
    /\ (last_op.op = "upload_election_results" /\ last_op.rows_before # {}) =>
          last_op.error = [type |-> "Conflict",
                           message |-> <<"Results for this precinct are already uploaded">>]

\* ------------------------------------------ claims: one result submission
\* The candidates a payload lists, contest after contest.
RECURSIVE ListedCandidates(_)
ListedCandidates(contests) ==
    IF contests = <<>> THEN <<>>
    ELSE Head(contests).candidates \o ListedCandidates(Tail(contests))

\* The payload lists a contest id twice.
ContestListedTwice(request_json) ==
    \E i, k \in DOMAIN request_json.contests :
       i # k /\ request_json.contests[i].id = request_json.contests[k].id

\* C29: a submission is all-or-nothing: a payload that lists a contest id
\* twice fails with a conflict; a submission that fails leaves the tally rows
\* as they were; a submission that succeeds adds exactly one row per listed
\* candidate, with the listed count, and keeps the rows there were.
C29_AllOrNothing ==
    last_op.op = "upload_election_results" =>
        LET listed == ListedCandidates(last_op.request_json.contests)
            added == PrecinctRows(election_result, last_op.precinct) \ last_op.rows_before
        IN /\ ContestListedTwice(last_op.request_json) => last_op.error.type = "Conflict"
           /\ last_op.error # NoError =>
                 PrecinctRows(election_result, last_op.precinct) = last_op.rows_before
           /\ last_op.error = NoError =>
                 /\ last_op.rows_before \subseteq election_result
                 /\ Cardinality(added) = Len(listed)
                 /\ \A i \in DOMAIN listed :
                       \E r \in added : /\ r.candidate_id = listed[i].id
                                        /\ r.num_votes = to_int(listed[i].numVotes)

====
